---- MODULE Spec2Model ----
(***************************************************************************)
(* Session lifecycle of the grafeno-portal front end: the axios gateway    *)
(* (services/api: request and response interceptors, token refresh and    *)
(* one-shot replay), the AuthProvider (startup load, signIn, signOut) and  *)
(* the localStorage keys access_token, refresh_token and user.            *)
(*                                                                         *)
(* The browser runs one handler at a time: every action below is one      *)
(* handler run from the event that starts it up to its next network       *)
(* await (or its end), microtask continuations included.                  *)
(***************************************************************************)
EXTENDS Integers, Sequences, FiniteSets, TLC

\* ---------------------------------------------------------------- bounds
NumReqs == 1        \* page requests that can be in flight at the same time
NumPairs == 2       \* distinct token pairs the server hands out
NumProfiles == 2    \* distinct profiles /auth/me can return

\* LoginPage disables its submit button from the login POST until signIn has
\* returned, so one signIn (one GET /auth/me) is in flight at a time: it has
\* its own slot, next to the NumReqs slots of the pages' requests.
MeSlot == 0
ApiSlots == 1..NumReqs
Reqs == {MeSlot} \cup ApiSlots
Pairs == 1..NumPairs
Profiles == 1..NumProfiles

\* ------------------------------------------------------- values and codecs
NoItem == 0                      \* localStorage.getItem(...) === null
RefreshBase == 100               \* keeps refresh tokens apart from access tokens
AccessOf(k) == k                 \* data.access_token of the k-th pair
RefreshOf(k) == RefreshBase + k  \* data.refresh_token of the k-th pair
AccessTokens == {AccessOf(k) : k \in Pairs}
RefreshTokens == {RefreshOf(k) : k \in Pairs}

NoHeader == <<>>                 \* no Authorization header
Bearer(t) == <<"Bearer", t>>     \* `Bearer ${token}`

NoUser == 0                      \* useState<User | null>(null)
Stringify(p) == <<"json", p>>    \* JSON.stringify(response.data)
CorruptItem == <<"corrupt">>     \* a stored string JSON.parse rejects
NoStored == <<>>                 \* key 'user' absent
StoredUsers == {NoStored, CorruptItem} \cup {Stringify(p) : p \in Profiles}
Parses(s) == Len(s) = 2 /\ s[1] = "json"
Parse(s) == s[2]                 \* JSON.parse(storagedUser), when Parses(s)

\* HTTP outcomes of one network call
NetErr == 0                      \* no response received (error.response undefined)
Ok == 200
Unauthorized == 401
ServerError == 500
NoRefreshToken == 1              \* new Error('No refresh token')
Failures == {NetErr, Unauthorized, ServerError}

NoOutcome == <<>>
Resolved(status) == <<"response", status>>       \* promise resolves with the response
Rejected(status) == <<"error", status>>          \* promise rejects with the request's error
RefreshError(cause) == <<"refreshError", cause>> \* promise rejects with refreshError

\* ------------------------------------------------------------------ state
VARIABLES
    store,        \* localStorage: access_token, refresh_token, user
    user,         \* AuthProvider state `user`
    loading,      \* AuthProvider state `loading`
    loadPc,       \* loadStoragedData: "pending", "done" or "threw"
    defaultsAuth, \* api.defaults.headers.Authorization
    commonAuth,   \* api.defaults.headers.common['Authorization']
    reloading,    \* window.location.href = '/login' was assigned: a document load is pending
    req           \* the requests in flight through `api`, one record per slot

vars == <<store, user, loading, loadPc, defaultsAuth, commonAuth, reloading, req>>

signed == user # NoUser          \* signed: !!user

IdleReq ==
    [pc |-> "idle", kind |-> "api", retry |-> FALSE, hdr |-> NoHeader,
     sends |-> 0, refreshCalls |-> 0, first |-> NoOutcome, last |-> NoOutcome,
     outcome |-> NoOutcome, granted |-> NoItem, arg |-> NoItem]

EmptyStore == [access_token |-> NoItem, refresh_token |-> NoItem, user |-> NoStored]

\* What a previous page of this application can have left in localStorage.
InitStores ==
    {[access_token |-> NoItem, refresh_token |-> NoItem, user |-> u] : u \in StoredUsers}
    \cup {[access_token |-> AccessOf(k), refresh_token |-> RefreshOf(k), user |-> u] :
             k \in Pairs, u \in StoredUsers}

Init ==
    /\ store \in InitStores
    /\ user = NoUser
    /\ loading = TRUE
    /\ loadPc = "pending"
    /\ defaultsAuth = NoHeader
    /\ commonAuth = NoHeader
    /\ reloading = FALSE
    /\ req = [r \in Reqs |-> IdleReq]

\* ------------------------------------------------------- services/api.ts
\* api.defaults.headers as axios flattens them for a request: a top-level
\* Authorization wins over headers.common.Authorization.
DefaultAuth == IF defaultsAuth # NoHeader THEN defaultsAuth ELSE commonAuth

\* api.interceptors.request.use: Authorization of the outbound request, given
\* localStorage's access_token and the header the merged config already has.
RequestInterceptor_KeepsExisting(token, configAuth) ==
    IF configAuth # NoHeader THEN configAuth
    ELSE IF token # NoItem THEN Bearer(token) ELSE configAuth
RequestInterceptor(token, configAuth) ==
    IF token # NoItem THEN Bearer(token) ELSE configAuth

\* The condition that starts the refresh flow in the response error handler.
ShouldRefresh_NoRetryFlag(status, retry) == status = Unauthorized
ShouldRefresh_SingleFlight(status, retry) ==
    status = Unauthorized /\ ~retry /\ \A o \in Reqs : req[o].pc # "refreshing"
ShouldRefresh_OnlyWithToken(status, retry) ==
    status = Unauthorized /\ ~retry /\ store.access_token # NoItem
ShouldRefresh_AnyError(status, retry) == ~retry
ShouldRefresh_NoResponse(status, retry) == status \in {Unauthorized, NetErr} /\ ~retry
ShouldRefresh(status, retry) == status = Unauthorized /\ ~retry

\* `if (!refreshToken) throw new Error('No refresh token')`.
HasRefreshToken_Unchecked(token) == TRUE
HasRefreshToken(token) == token # NoItem

\* Tokens written after a successful refresh call.
SaveTokens_DropsUser(s, access, refresh) ==
    [s EXCEPT !.access_token = access, !.refresh_token = refresh, !.user = NoStored]
SaveTokens_Swapped(s, access, refresh) ==
    [s EXCEPT !.access_token = refresh, !.refresh_token = access]
SaveTokens_RefreshOnly(s, access, refresh) ==
    [s EXCEPT !.refresh_token = refresh]
SaveTokens_AccessOnly(s, access, refresh) ==
    [s EXCEPT !.access_token = access]
SaveTokens(s, access, refresh) ==
    [s EXCEPT !.access_token = access, !.refresh_token = refresh]

\* catch (refreshError): the three removeItem calls.
Teardown_KeepsUser(s) ==
    [s EXCEPT !.access_token = NoItem, !.refresh_token = NoItem]
Teardown(s) ==
    [s EXCEPT !.access_token = NoItem, !.refresh_token = NoItem, !.user = NoStored]

\* What the catch block rejects with, given refreshError and the original error.
CatchRejection_Original(refreshError, originalError) == originalError
CatchRejection(refreshError, originalError) == refreshError

\* signIn's continuation after `await api.get('/auth/me')`: runs in the same
\* turn as the gateway settling the promise.  q is the request, out its outcome.
ProfileStore(s, q, out, data) ==
    IF q.kind = "me" /\ out = Resolved(Ok) THEN [s EXCEPT !.user = Stringify(data)] ELSE s
ProfileUser(u, q, out, data) ==
    IF q.kind = "me" /\ out = Resolved(Ok) THEN data ELSE u

\* A settled promise is consumed by its caller in the same turn: "done" is a
\* point inside a handler run, and no other handler starts before it is left.
Settling == \E r \in Reqs : req[r].pc = "done"

\* Once window.location.href is assigned the document is being replaced: the
\* handlers of calls already in flight still run, but nothing new is started
\* from the old page (StartRequest, SignIn and SignOut wait for the new one).

\* A first dispatch of a request through `api`.
Dispatched(kind) ==
    [IdleReq EXCEPT !.pc = "sent", !.kind = kind, !.sends = 1,
                    !.hdr = RequestInterceptor(store.access_token, DefaultAuth)]

\* Any page calling api.get / api.post (balance, statement, pix, login, ...).
StartRequest(r) ==
    /\ ~Settling
    /\ ~reloading
    /\ loadPc # "pending"
    /\ req[r].pc = "idle"
    /\ req' = [req EXCEPT ![r] = Dispatched("api")]
    /\ UNCHANGED <<store, user, loading, loadPc, defaultsAuth, commonAuth, reloading>>

\* The response interceptor's success handler: (response) => response.
RespondOk(r, data) ==
    LET q == req[r]
        out == Resolved(Ok)
    IN /\ ~Settling
       /\ q.pc \in {"sent", "replayed"}
       /\ req' = [req EXCEPT ![r].pc = "done", ![r].outcome = out, ![r].last = out,
                             ![r].first = IF q.sends = 1 THEN out ELSE q.first]
       /\ store' = ProfileStore(store, q, out, data)
       /\ user' = ProfileUser(user, q, out, data)
       /\ UNCHANGED <<loading, loadPc, defaultsAuth, commonAuth, reloading>>

\* The response interceptor's error handler, for an error of the request
\* itself: status is error.response?.status, NetErr when there is no response.
RespondError(r, status) ==
    LET q == req[r]
        err == Rejected(status)
        seen == [q EXCEPT !.last = err, !.first = IF q.sends = 1 THEN err ELSE q.first]
    IN /\ ~Settling
       /\ q.pc \in {"sent", "replayed"}
       /\ IF ShouldRefresh(status, q.retry)
          THEN IF ~HasRefreshToken(store.refresh_token)
               THEN \* throw new Error('No refresh token') -> catch
                    /\ req' = [req EXCEPT ![r] =
                                 [seen EXCEPT !.retry = TRUE, !.pc = "done",
                                              !.outcome = CatchRejection(RefreshError(NoRefreshToken), err)]]
                    /\ store' = Teardown(store)
                    /\ reloading' = TRUE
               ELSE \* await axios.post(`${API_URL}/auth/refresh`, ...)
                    /\ req' = [req EXCEPT ![r] =
                                 [seen EXCEPT !.retry = TRUE, !.pc = "refreshing",
                                              !.refreshCalls = q.refreshCalls + 1]]
                    /\ UNCHANGED <<store, reloading>>
          ELSE \* return Promise.reject(error)
               /\ req' = [req EXCEPT ![r] = [seen EXCEPT !.pc = "done", !.outcome = err]]
               /\ UNCHANGED <<store, reloading>>
       /\ UNCHANGED <<user, loading, loadPc, defaultsAuth, commonAuth>>

\* The refresh call answered with a new pair: store it, set the common
\* default header and replay the original request through `api`.
RefreshOk(r, k) ==
    LET q == req[r]
        saved == SaveTokens(store, AccessOf(k), RefreshOf(k))
        common == Bearer(AccessOf(k))
        dfl == IF defaultsAuth # NoHeader THEN defaultsAuth ELSE common
        configAuth == IF q.hdr # NoHeader THEN q.hdr ELSE dfl
    IN /\ ~Settling
       /\ q.pc = "refreshing"
       /\ store' = saved
       /\ commonAuth' = common
       /\ req' = [req EXCEPT ![r].pc = "replayed", ![r].sends = q.sends + 1,
                             ![r].granted = k,
                             ![r].hdr = RequestInterceptor(saved.access_token, configAuth)]
       /\ UNCHANGED <<user, loading, loadPc, defaultsAuth, reloading>>

\* The refresh call failed (it is made with the bare axios, outside `api`).
RefreshFail(r, status) ==
    LET q == req[r]
    IN /\ ~Settling
       /\ q.pc = "refreshing"
       /\ store' = Teardown(store)
       /\ reloading' = TRUE
       /\ req' = [req EXCEPT ![r].pc = "done",
                             ![r].outcome = CatchRejection(RefreshError(status), q.last)]
       /\ UNCHANGED <<user, loading, loadPc, defaultsAuth, commonAuth>>

\* The caller has consumed the settled promise; the slot is free again.
Collect(r) ==
    /\ req[r].pc = "done"
    /\ req' = [req EXCEPT ![r] = IdleReq]
    /\ UNCHANGED <<store, user, loading, loadPc, defaultsAuth, commonAuth, reloading>>

\* ------------------------------------------------------ context/AuthContext
\* `if (storagedToken && storagedUser)`.
HasStoredSession_UserOnly(s) == s.user # NoStored
HasStoredSession(s) == s.access_token # NoItem /\ s.user # NoStored

\* The page memory loadStoragedData leaves, run on localStorage s from memory m
\* (m: user, loading, defaultsAuth and the position of the load itself).
LoadedMemory(s, m) ==
    IF HasStoredSession(s)
    THEN IF Parses(s.user)
         THEN [m EXCEPT !.defaultsAuth = Bearer(s.access_token), !.user = Parse(s.user),
                        !.loading = FALSE, !.loadPc = "done"]
         ELSE \* JSON.parse throws: setLoading(false) is never reached
              [m EXCEPT !.defaultsAuth = Bearer(s.access_token), !.loadPc = "threw"]
    ELSE [m EXCEPT !.loading = FALSE, !.loadPc = "done"]

\* localStorage after loadStoragedData: it only calls getItem.
LoadedStore_DropsCorrupt(s) ==
    IF s.user # NoStored /\ ~Parses(s.user) THEN [s EXCEPT !.user = NoStored] ELSE s
LoadedStore(s) == s

Memory == [user |-> user, loading |-> loading, defaultsAuth |-> defaultsAuth, loadPc |-> loadPc]

\* useEffect(() => loadStoragedData(), []): runs once after the first render.
LoadStoragedData ==
    LET m == LoadedMemory(store, Memory)
    IN /\ ~Settling
       /\ loadPc = "pending"
       /\ user' = m.user
       /\ loading' = m.loading
       /\ defaultsAuth' = m.defaultsAuth
       /\ loadPc' = m.loadPc
       /\ store' = LoadedStore(store)
       /\ UNCHANGED <<commonAuth, reloading, req>>

\* signIn(accessToken, refreshToken) up to `await api.get('/auth/me')`.
SignIn(access, refresh) ==
    /\ ~Settling
    /\ ~reloading
    /\ loadPc # "pending"
    /\ req[MeSlot].pc = "idle"
    /\ store' = SaveTokens(store, access, refresh)
    /\ defaultsAuth' = Bearer(access)
    /\ req' = [req EXCEPT ![MeSlot] =
                 [IdleReq EXCEPT !.pc = "sent", !.kind = "me", !.sends = 1, !.arg = access,
                                 !.hdr = RequestInterceptor(store'.access_token, Bearer(access))]]
    /\ UNCHANGED <<user, loading, loadPc, commonAuth, reloading>>

\* localStorage.clear().
Cleared_TokensOnly(s) == [s EXCEPT !.access_token = NoItem, !.refresh_token = NoItem]
Cleared(s) == EmptyStore

\* signOut(): localStorage.clear(); setUser(null).
SignOut ==
    /\ ~Settling
    /\ ~reloading
    /\ loadPc # "pending"
    /\ store' = Cleared(store)
    /\ user' = NoUser
    /\ UNCHANGED <<loading, loadPc, defaultsAuth, commonAuth, reloading, req>>

\* PrivateRoute: what a protected route renders for the given loading and
\* signed: the "Carregando..." placeholder, <Navigate to="/login" /> or its
\* children.
PrivateRoute_SignedFirst(isLoading, isSigned) ==
    IF ~isSigned THEN "navigate" ELSE IF isLoading THEN "placeholder" ELSE "children"
PrivateRoute(isLoading, isSigned) ==
    IF isLoading THEN "placeholder" ELSE IF ~isSigned THEN "navigate" ELSE "children"

\* The document load that `window.location.href = '/login'` starts: the page's
\* memory is rebuilt, only localStorage survives.
Reload ==
    /\ ~Settling
    /\ reloading
    /\ reloading' = FALSE
    /\ user' = NoUser
    /\ loading' = TRUE
    /\ loadPc' = "pending"
    /\ defaultsAuth' = NoHeader
    /\ commonAuth' = NoHeader
    /\ req' = [r \in Reqs |-> IdleReq]
    /\ UNCHANGED store

Next ==
    \/ LoadStoragedData
    \/ \E r \in ApiSlots : StartRequest(r)
    \/ \E r \in Reqs, p \in Profiles : RespondOk(r, p)
    \/ \E r \in Reqs, s \in Failures : RespondError(r, s)
    \/ \E r \in Reqs, k \in Pairs : RefreshOk(r, k)
    \/ \E r \in Reqs, s \in Failures : RefreshFail(r, s)
    \/ \E r \in Reqs : Collect(r)
    \/ \E k \in Pairs : SignIn(AccessOf(k), RefreshOf(k))
    \/ SignOut
    \/ Reload

Spec == Init /\ [][Next]_vars

\* Every network call is answered or fails, and the handler of the answer
\* runs once the running handler has finished; a settled promise's caller runs.
Answer(r) ==
    \/ \E p \in Profiles : RespondOk(r, p)
    \/ \E s \in Failures : RespondError(r, s)
    \/ \E k \in Pairs : RefreshOk(r, k)
    \/ \E s \in Failures : RefreshFail(r, s)

FairSpec ==
    /\ Spec
    /\ \A r \in Reqs : SF_vars(Answer(r)) /\ WF_vars(Collect(r))

TypeOK ==
    /\ store \in [access_token : {NoItem} \cup AccessTokens,
                  refresh_token : {NoItem} \cup RefreshTokens,
                  user : StoredUsers]
    /\ user \in {NoUser} \cup Profiles
    /\ loading \in BOOLEAN
    /\ loadPc \in {"pending", "done", "threw"}
    /\ reloading \in BOOLEAN
    /\ \A r \in Reqs : req[r].pc \in {"idle", "sent", "refreshing", "replayed", "done"}

\* ================================================================ claims
\* The 401 handling of request q ended in REFRESH_FAILED: the request was
\* marked as retried and settled without ever being replayed.
RefreshFailed(q) == q.pc = "done" /\ q.retry /\ q.sends = 1

\* A response (or transport failure) of request r is handled in this step.
Answered(r) ==
    /\ req[r].pc \in {"sent", "replayed"}
    /\ req'[r] # req[r]
    /\ req'[r].pc # "idle"

\* Request r is dispatched (first attempt or replay) in this step.
Sent(r) == req'[r].sends = req[r].sends + 1

\* C1: a request whose first response is 401 and whose refresh call succeeds
\* makes exactly one refresh call and exactly one replay, never more while in
\* flight, and its caller gets the replay's outcome, a second 401 included.
C1_OneRefreshOneReplay ==
    \A r \in Reqs :
        /\ req[r].refreshCalls <= 1
        /\ req[r].sends <= 2
        /\ (req[r].pc = "done" /\ req[r].first = Rejected(Unauthorized) /\ req[r].granted # NoItem)
              => /\ req[r].refreshCalls = 1
                 /\ req[r].sends = 2
                 /\ req[r].outcome = req[r].last

C1_Witness ==
    \E r \in Reqs :
        /\ req[r].pc = "done"
        /\ req[r].first = Rejected(Unauthorized)
        /\ req[r].granted # NoItem
        /\ req[r].last = Rejected(Unauthorized)
        /\ req[r].outcome = Rejected(Unauthorized)
        /\ req[r].refreshCalls = 1

\* C2: when a request's 401 handling ends in REFRESH_FAILED, localStorage
\* holds none of access_token, refresh_token and user, and the navigation to
\* /login has been started.
C2_RefreshFailedClearsSession ==
    \A r \in Reqs :
        RefreshFailed(req[r]) => (store = EmptyStore /\ reloading)

C2_Witness ==
    \E r \in Reqs :
        /\ RefreshFailed(req[r])
        /\ req[r].refreshCalls = 1
        /\ store = EmptyStore
        /\ reloading

\* C3 as stated: when the replay of an already retried request gets 401, no
\* second refresh happens, the 401 reaches the caller and the session is cleared.
C3_Original ==
    \A r \in Reqs :
        (req[r].pc = "done" /\ req[r].sends = 2 /\ req[r].last = Rejected(Unauthorized))
            => /\ req[r].refreshCalls = 1
               /\ req[r].outcome = Rejected(Unauthorized)
               /\ store = EmptyStore

\* C3 amended: when the replay of an already retried request gets 401, no
\* second refresh and no second replay happen, the 401 reaches the caller, and
\* the gateway leaves localStorage as it was (no teardown, no navigation).
C3_ReplayRejectedKeepsSession ==
    [][\A r \in Reqs :
          (Answered(r) /\ req[r].retry /\ req'[r].last = Rejected(Unauthorized))
              => /\ req'[r].pc = "done"
                 /\ req'[r].outcome = Rejected(Unauthorized)
                 /\ req'[r].refreshCalls = req[r].refreshCalls
                 /\ req'[r].sends = req[r].sends
                 /\ store' = store
                 /\ reloading' = reloading]_vars

C3_Witness ==
    \E r \in Reqs :
        /\ req[r].pc = "done"
        /\ req[r].sends = 2
        /\ req[r].last = Rejected(Unauthorized)
        /\ req[r].outcome = Rejected(Unauthorized)
        /\ store.access_token = AccessOf(req[r].granted)
        /\ store.refresh_token = RefreshOf(req[r].granted)
        /\ ~reloading

C5_NoRefreshTokenNoCall ==
    [][\A r \in Reqs :
          (/\ Answered(r)
           /\ ~req[r].retry
           /\ req'[r].last = Rejected(Unauthorized)
           /\ store.refresh_token = NoItem)
              => /\ RefreshFailed(req'[r])
                 /\ req'[r].refreshCalls = 0
                 /\ req'[r].sends = 1]_vars

C5_Witness ==
    \E r \in Reqs :
        /\ RefreshFailed(req[r])
        /\ req[r].refreshCalls = 0
        /\ req[r].first = Rejected(Unauthorized)
        /\ req[r].outcome = RefreshError(NoRefreshToken)

\* C6: a request dispatched (first attempt or replay) while access_token is
\* stored carries Bearer <that token>, whatever the default headers hold.
C6_BearerOfStoredToken ==
    [][\A r \in Reqs :
          (Sent(r) /\ store'.access_token # NoItem)
              => req'[r].hdr = Bearer(store'.access_token)]_vars

C6_Witness ==
    \E r \in Reqs :
        /\ req[r].pc = "sent"
        /\ req[r].kind = "api"
        /\ store.access_token # NoItem
        /\ req[r].hdr = Bearer(store.access_token)
        /\ defaultsAuth # NoHeader
        /\ defaultsAuth # req[r].hdr

\* C7: a request dispatched while no access_token is stored carries no
\* Authorization header.
C7_NoTokenNoHeader ==
    [][\A r \in Reqs :
          (Sent(r) /\ store'.access_token = NoItem)
              => req'[r].hdr = NoHeader]_vars

\* C8: a response whose status is not 401 settles the request with that
\* response or error, with no refresh call and no replay, and the gateway
\* changes no localStorage key (the profile write of signIn's own
\* continuation after a successful /auth/me is the caller's).
C8_Non401PassesThrough ==
    [][\A r \in Reqs :
          (Answered(r) /\ req'[r].last \in {Resolved(Ok), Rejected(ServerError)})
              => /\ req'[r].pc = "done"
                 /\ req'[r].outcome = req'[r].last
                 /\ req'[r].refreshCalls = req[r].refreshCalls
                 /\ req'[r].sends = req[r].sends
                 /\ req'[r].retry = req[r].retry
                 /\ store'.access_token = store.access_token
                 /\ store'.refresh_token = store.refresh_token
                 /\ (store'.user = store.user
                        \/ (req[r].kind = "me" /\ req'[r].last = Resolved(Ok)))
                 /\ reloading' = reloading]_vars

C8_Witness ==
    \E r \in Reqs :
        /\ req[r].pc = "done"
        /\ req[r].kind = "api"
        /\ req[r].sends = 1
        /\ req[r].outcome = Rejected(ServerError)
        /\ req[r].refreshCalls = 0
        /\ store.access_token # NoItem
        /\ store.refresh_token # NoItem

\* C9: a transport failure (no response) rejects the caller with that failure;
\* the request is not sent again, no refresh call is made, localStorage is unchanged.
C9_NetworkFailurePassesThrough ==
    [][\A r \in Reqs :
          (Answered(r) /\ req'[r].last = Rejected(NetErr))
              => /\ req'[r].pc = "done"
                 /\ req'[r].outcome = Rejected(NetErr)
                 /\ req'[r].refreshCalls = req[r].refreshCalls
                 /\ req'[r].sends = req[r].sends
                 /\ store' = store
                 /\ reloading' = reloading]_vars

C9_Witness ==
    \E r \in Reqs :
        /\ req[r].pc = "done"
        /\ req[r].sends = 1
        /\ req[r].outcome = Rejected(NetErr)
        /\ req[r].refreshCalls = 0
        /\ store.refresh_token # NoItem

\* C10: when the refresh call succeeds, both returned tokens are in
\* localStorage when the replay is dispatched, the replay carries Bearer <new
\* access token>, and the step leaves exactly the returned pair stored.
C10_RefreshPersistsThenReplays ==
    [][\A r \in Reqs :
          (req[r].pc = "refreshing" /\ req'[r].pc # "refreshing" /\ req'[r].granted # NoItem)
              => /\ req'[r].pc = "replayed"
                 /\ Sent(r)
                 /\ store'.access_token = AccessOf(req'[r].granted)
                 /\ store'.refresh_token = RefreshOf(req'[r].granted)
                 /\ req'[r].hdr = Bearer(AccessOf(req'[r].granted))
                 /\ commonAuth' = Bearer(AccessOf(req'[r].granted))]_vars

C10_Witness ==
    \E r \in Reqs :
        /\ req[r].pc = "replayed"
        /\ req[r].granted # NoItem
        /\ store.access_token = AccessOf(req[r].granted)
        /\ store.refresh_token = RefreshOf(req[r].granted)
        /\ req[r].hdr = Bearer(AccessOf(req[r].granted))
        /\ defaultsAuth # NoHeader
        /\ defaultsAuth # req[r].hdr

\* Request r settles in this step.
Completes(r) == req[r].pc # "done" /\ req'[r].pc = "done"

\* The refresh call of request r succeeds in this step.
Refreshed(r) == req[r].pc = "refreshing" /\ req'[r].pc = "replayed"

\* signIn's continuation stores the profile of a successful GET /auth/me.
ProfileSaved ==
    /\ Completes(MeSlot)
    /\ req'[MeSlot].kind = "me"
    /\ req'[MeSlot].outcome = Resolved(Ok)

\* A refresh-failure teardown runs in this step.
TornDown == \E r \in Reqs : Completes(r) /\ RefreshFailed(req'[r])

\* A step that removes session data without starting the navigation to /login:
\* of all handlers only signOut does that.
SignedOut ==
    /\ ~reloading /\ ~reloading'
    /\ \/ user # NoUser /\ user' = NoUser
       \/ store.access_token # NoItem /\ store'.access_token = NoItem
       \/ store.refresh_token # NoItem /\ store'.refresh_token = NoItem
       \/ store.user # NoStored /\ store'.user = NoStored

\* C11: a successful token refresh writes the two tokens only, leaving the
\* persisted profile and the in-memory user as they were; the persisted
\* profile changes only by signIn's profile save, signOut or a teardown.
C11_GatewayWritesNoProfile ==
    [][/\ \A r \in Reqs :
             Refreshed(r) => (store'.user = store.user /\ user' = user)
       /\ store'.user # store.user => (ProfileSaved \/ SignedOut \/ TornDown)]_vars

C11_Witness ==
    \E r \in Reqs :
        /\ req[r].pc = "replayed"
        /\ store.access_token = AccessOf(req[r].granted)
        /\ req[r].first = Rejected(Unauthorized)
        /\ user # NoUser
        /\ store.user = Stringify(user)

\* C12: signIn(a, r) stores access_token = a and refresh_token = r and sets
\* the default header, then dispatches one GET /auth/me carrying Bearer a; when
\* that request succeeds the returned profile is in memory and in
\* localStorage and signed is true.
C12_SignInPersistsThenFetches ==
    [][/\ (req[MeSlot].pc = "idle" /\ req'[MeSlot].pc = "sent")
            => /\ req'[MeSlot].arg \in AccessTokens
               /\ \E k \in Pairs :
                     /\ req'[MeSlot].arg = AccessOf(k)
                     /\ store'.access_token = AccessOf(k)
                     /\ store'.refresh_token = RefreshOf(k)
               /\ defaultsAuth' = Bearer(req'[MeSlot].arg)
               /\ req'[MeSlot].hdr = Bearer(req'[MeSlot].arg)
               /\ req'[MeSlot].sends = 1
               /\ \A r \in ApiSlots : req'[r] = req[r]
       /\ ProfileSaved
            => /\ user' \in Profiles
               /\ store'.user = Stringify(user')
               /\ user' # NoUser]_vars

C12_Witness ==
    /\ req[MeSlot].pc = "done"
    /\ req[MeSlot].outcome = Resolved(Ok)
    /\ req[MeSlot].sends = 1
    /\ signed
    /\ store.user = Stringify(user)
    /\ store.access_token = req[MeSlot].arg

\* C13 as stated: when signIn's profile fetch has failed, the profile is
\* absent and the tokens passed to signIn are still in localStorage.
C13_Original ==
    (req[MeSlot].pc = "done" /\ req[MeSlot].outcome # Resolved(Ok))
        => /\ user = NoUser
           /\ store.user = NoStored
           /\ store.access_token = req[MeSlot].arg
           /\ \E k \in Pairs : req[MeSlot].arg = AccessOf(k) /\ store.refresh_token = RefreshOf(k)

\* C13 amended: when signIn's profile fetch fails, signIn writes nothing: the
\* in-memory user stays as it was, and localStorage is unchanged by the
\* failure's delivery unless the gateway's refresh flow failed, in which case
\* it is cleared; a failure other than 401 never changes localStorage.
C13_FailedFetchWritesNothing ==
    [][(Completes(MeSlot) /\ req'[MeSlot].outcome # Resolved(Ok))
          => /\ user' = user
             /\ IF RefreshFailed(req'[MeSlot]) THEN store' = EmptyStore ELSE store' = store
             /\ req'[MeSlot].last # Rejected(Unauthorized)
                   => (store' = store /\ req'[MeSlot].outcome = req'[MeSlot].last)]_vars

C13_Witness ==
    /\ req[MeSlot].pc = "done"
    /\ req[MeSlot].outcome = Rejected(ServerError)
    /\ req[MeSlot].sends = 1
    /\ store.access_token = req[MeSlot].arg
    /\ user # NoUser
    /\ store.user = Stringify(user)

\* C14: signOut leaves localStorage empty and the in-memory user null (signed
\* false) and sends nothing: no request changes and no header changes.
C14_SignOutEmptiesSession ==
    [][SignedOut
          => /\ store' = EmptyStore
             /\ user' = NoUser
             /\ req' = req
             /\ UNCHANGED <<loading, loadPc, defaultsAuth, commonAuth>>]_vars

C14_Witness ==
    /\ store = EmptyStore
    /\ ~signed
    /\ ~reloading
    /\ defaultsAuth # NoHeader
    /\ \E r \in Reqs : req[r].pc = "sent" /\ req[r].hdr # NoHeader

\* C15 as stated: once the page has loaded, access_token is stored if and only
\* if signed is true.
C15_Original ==
    loadPc # "pending" => (store.access_token # NoItem <=> signed)

\* C15 amended: signed is true exactly while a profile is cached in memory; it
\* becomes true only when the startup load finds both access_token and user
\* stored, or when signIn's GET /auth/me succeeds.  Token presence and signed
\* can differ in both directions.
C15_SignedOnlyByLoadOrProfile ==
    [][(~signed /\ signed')
          => \/ /\ loadPc = "pending" /\ loadPc' = "done"
                /\ store.access_token # NoItem
                /\ store.user = Stringify(user')
             \/ ProfileSaved]_vars

C15_Witness ==
    /\ loadPc = "done"
    /\ signed
    /\ store.access_token # NoItem
    /\ store.user = Stringify(user)
    /\ \A r \in Reqs : req[r].pc = "idle"

\* C16: with an unparseable stored profile the startup load completes without
\* a fault: loading becomes false and the user stays absent.
C16_CorruptProfileLoads ==
    [][(loadPc = "pending" /\ loadPc' # "pending" /\ store.user = CorruptItem)
          => /\ loadPc' = "done"
             /\ loading' = FALSE
             /\ user' = NoUser]_vars

\* C17: the startup load writes no localStorage key, and running it again on
\* the same stored state leaves the same page memory as running it once.
C17_LoadReadsOnly ==
    /\ [](LoadedMemory(store, LoadedMemory(store, Memory)) = LoadedMemory(store, Memory))
    /\ [](LoadedStore(store) = store)
    /\ [][loadPc = "pending" /\ loadPc' # "pending" => store' = store]_vars

C17_Witness ==
    /\ loadPc = "done"
    /\ signed
    /\ defaultsAuth = Bearer(store.access_token)
    /\ store.user = Stringify(user)
    /\ ~loading
    /\ LoadedMemory(store, Memory) = Memory

\* C18: a first 401 received while a refresh token is stored starts a refresh
\* call of its own even while another request's refresh call is outstanding.
C18_NoSingleFlight ==
    [][\A r \in Reqs :
          (/\ Answered(r)
           /\ ~req[r].retry
           /\ req'[r].last = Rejected(Unauthorized)
           /\ store.refresh_token # NoItem
           /\ \E o \in Reqs \ {r} : req[o].pc = "refreshing")
              => /\ req'[r].pc = "refreshing"
                 /\ req'[r].refreshCalls = req[r].refreshCalls + 1
                 /\ \A o \in Reqs \ {r} : req'[o] = req[o]]_vars

C18_Witness ==
    /\ \A r \in Reqs : req[r].pc = "refreshing" /\ req[r].refreshCalls = 1
    /\ Cardinality(Reqs) >= 2

\* The tokens in localStorage are absent together or the two of one pair.
PairedTokens ==
    \/ store.access_token = NoItem /\ store.refresh_token = NoItem
    \/ \E k \in Pairs : store.access_token = AccessOf(k) /\ store.refresh_token = RefreshOf(k)

\* C19: when a refresh succeeds after another overlapping cycle's refresh has
\* succeeded, localStorage holds the pair of the response handled last, and
\* the stored tokens are never one cycle's access with another's refresh.
C19_LastWriterWins ==
    /\ []PairedTokens
    /\ [][\A r \in Reqs :
             (Refreshed(r) /\ \E o \in Reqs \ {r} : req[o].pc = "replayed")
                 => /\ store'.access_token = AccessOf(req'[r].granted)
                    /\ store'.refresh_token = RefreshOf(req'[r].granted)]_vars

C19_Witness ==
    \E r, o \in Reqs :
        /\ r # o
        /\ req[r].pc = "replayed" /\ req[o].pc = "replayed"
        /\ req[r].granted # req[o].granted
        /\ store.access_token = AccessOf(req[r].granted)
        /\ store.refresh_token = RefreshOf(req[r].granted)

\* Request r has a network call outstanding.
InFlight(r) == req[r].pc \in {"sent", "refreshing", "replayed"}

\* The network answers request q can still wait for before it must settle:
\* first response, refresh response, replay response.
Rank(q) ==
    CASE q.pc = "sent" -> 3
      [] q.pc = "refreshing" -> 2
      [] q.pc = "replayed" -> 1
      [] OTHER -> 0

\* C20: a request is sent at most twice and refreshes at most once, and every
\* answer handled for a request in flight brings it strictly closer to
\* settling: after at most three answers (first response, refresh response,
\* replay response) its caller has a terminal outcome, so no refresh/retry
\* loop exists even when every access token is rejected with 401.
C20_RequestsTerminate ==
    /\ [](\A r \in Reqs : req[r].sends <= 2 /\ req[r].refreshCalls <= 1)
    /\ [][\A r \in Reqs :
             (InFlight(r) /\ req'[r] # req[r]) => Rank(req'[r]) < Rank(req[r])]_vars

\* With every network call answered (FairSpec), a request in flight always
\* comes to settle for its caller, or goes with the page on a reload.
EventuallySettles ==
    \A r \in Reqs : InFlight(r) ~> (req[r].pc = "done" \/ loadPc = "pending")

C20_Witness ==
    \E r \in Reqs :
        /\ req[r].pc = "done"
        /\ req[r].sends = 2
        /\ req[r].refreshCalls = 1
        /\ req[r].first = Rejected(Unauthorized)
        /\ req[r].outcome = Rejected(Unauthorized)
        /\ store.access_token # NoItem

\* C21: clearing the session is idempotent: signOut's clear and the teardown
\* each give the empty store, and applied to a cleared store, in either order,
\* they leave it as it is; a teardown that finds the store already empty
\* changes nothing in it.
C21_ClearIsIdempotent ==
    /\ [](/\ Cleared(store) = EmptyStore
          /\ Teardown(store) = EmptyStore
          /\ Cleared(Cleared(store)) = Cleared(store)
          /\ Teardown(Teardown(store)) = Teardown(store)
          /\ Cleared(Teardown(store)) = Teardown(store)
          /\ Teardown(Cleared(store)) = Cleared(store))
    /\ [][/\ (SignedOut \/ TornDown) => store' = EmptyStore
          /\ (TornDown /\ store = EmptyStore) => store' = store]_vars

C21_Witness ==
    \E r \in ApiSlots :
        /\ RefreshFailed(req[r])
        /\ req[r].refreshCalls = 0
        /\ req[r].hdr # NoHeader
        /\ store = EmptyStore
        /\ reloading
        /\ ~signed
        /\ defaultsAuth # NoHeader
        /\ req[MeSlot].pc = "idle"

\* C22: when the startup load completes, signed is true exactly when
\* localStorage held both access_token and user; a stored access_token
\* without a stored profile gives signed = false.
C22_LoadNeedsTokenAndProfile ==
    [][(loadPc = "pending" /\ loadPc' = "done")
          => /\ signed' <=> (store.access_token # NoItem /\ store.user # NoStored)
             /\ (store.access_token # NoItem /\ store.user = NoStored) => ~signed'
             /\ signed' => user' = Parse(store.user)]_vars

C22_Witness ==
    /\ loadPc = "done"
    /\ ~loading
    /\ ~signed
    /\ store.access_token # NoItem
    /\ store.user = NoStored
    /\ defaultsAuth = NoHeader
    /\ \A r \in Reqs : req[r].pc = "idle"

\* localStorage s holds neither token.
NoTokens(s) == s.access_token = NoItem /\ s.refresh_token = NoItem

\* signIn is called in this step.
SignInCalled == req[MeSlot].pc = "idle" /\ req'[MeSlot].pc = "sent"

\* C23: once signOut has run, localStorage holds no access_token and no
\* refresh_token until signIn is called, also when the answer to a refresh
\* call that was in flight at signOut arrives afterwards.  (A store without
\* tokens and no reload pending is what signOut leaves; a page that started
\* without a session has no refresh call in flight.)
C23_SignedOutStaysTokenless ==
    [][(NoTokens(store) /\ ~reloading /\ ~SignInCalled) => NoTokens(store')]_vars

\* C24: once signOut has run, signed stays false and localStorage holds no
\* profile until signIn is called, also when the answer to a GET /auth/me that
\* was in flight at signOut arrives afterwards.
C24_SignedOutStaysSignedOut ==
    [][(/\ ~signed
        /\ store.user = NoStored
        /\ NoTokens(store)
        /\ ~reloading
        /\ ~SignInCalled)
          => (~signed' /\ store'.user = NoStored)]_vars

\* C25: a refresh-failure teardown of one request does not remove the token
\* pair stored by the successful refresh of another request whose cycle
\* overlaps it.
C25_TeardownSparesRefreshedPair ==
    [][\A r \in Reqs :
          (/\ req[r].pc = "refreshing"
           /\ Completes(r)
           /\ \E o \in Reqs \ {r} :
                 /\ req[o].pc = "replayed"
                 /\ store.access_token = AccessOf(req[o].granted)
                 /\ store.refresh_token = RefreshOf(req[o].granted))
              => /\ store'.access_token = store.access_token
                 /\ store'.refresh_token = store.refresh_token]_vars

\* C26: a first 401 answering a request that was sent without an
\* Authorization header enters the refresh flow like any other: with no
\* refresh token stored it clears localStorage, starts the navigation to
\* /login and rejects with the refresh-step error, without a refresh call;
\* with one stored it makes the refresh call.
C26_UnauthenticatedAlsoRefreshes ==
    [][\A r \in Reqs :
          (/\ Answered(r)
           /\ req[r].hdr = NoHeader
           /\ ~req[r].retry
           /\ req'[r].last = Rejected(Unauthorized))
              => /\ req'[r].retry
                 /\ IF store.refresh_token = NoItem
                    THEN /\ req'[r].pc = "done"
                         /\ req'[r].outcome = RefreshError(NoRefreshToken)
                         /\ req'[r].refreshCalls = req[r].refreshCalls
                         /\ store' = EmptyStore
                         /\ reloading'
                    ELSE /\ req'[r].pc = "refreshing"
                         /\ req'[r].refreshCalls = req[r].refreshCalls + 1
                         /\ store' = store]_vars

C26_Witness ==
    \E r \in Reqs :
        /\ RefreshFailed(req[r])
        /\ req[r].hdr = NoHeader
        /\ req[r].first = Rejected(Unauthorized)
        /\ req[r].outcome = RefreshError(NoRefreshToken)
        /\ store = EmptyStore
        /\ reloading

\* C27: a failure of the refresh call, a 401 included, starts no further
\* refresh call: the request that made the call settles in REFRESH_FAILED
\* (localStorage cleared, navigation to /login started, caller rejected with
\* the refresh error) and no request ever makes a second refresh call.
C27_RefreshFailureTearsDown ==
    /\ [](\A r \in Reqs : req[r].refreshCalls <= 1)
    /\ [][\A r \in Reqs :
             (/\ req[r].pc = "refreshing"
              /\ req'[r] # req[r]
              /\ req'[r].pc \notin {"replayed", "idle"})
                 => /\ RefreshFailed(req'[r])
                    /\ req'[r].refreshCalls = req[r].refreshCalls
                    /\ req'[r].sends = req[r].sends
                    /\ \E s \in Failures : req'[r].outcome = RefreshError(s)
                    /\ store' = EmptyStore
                    /\ reloading'
                    /\ \A o \in Reqs \ {r} : req'[o] = req[o]]_vars

C27_Witness ==
    \E r \in Reqs :
        /\ RefreshFailed(req[r])
        /\ req[r].refreshCalls = 1
        /\ req[r].last = Rejected(Unauthorized)
        /\ req[r].outcome = RefreshError(Unauthorized)
        /\ store = EmptyStore
        /\ reloading

\* C28: when signIn completes, the profile in memory and in localStorage is
\* the one its GET /auth/me returned, or is absent: after a failed fetch no
\* profile of an earlier session is left (a stored item that does not parse
\* is no profile).
C28_ProfileBelongsToTokens ==
    [][Completes(MeSlot)
          => IF req'[MeSlot].outcome = Resolved(Ok)
             THEN user' # NoUser /\ store'.user = Stringify(user')
             ELSE user' = NoUser /\ ~Parses(store'.user)]_vars

\* C29: a protected route renders its children exactly when loading is false
\* and signed is true; while loading is true it renders the placeholder
\* (neither children nor redirect); with loading false and signed false it
\* redirects to /login.
C29_RouteGuard ==
    /\ PrivateRoute(loading, signed) = "children" <=> (~loading /\ signed)
    /\ loading => PrivateRoute(loading, signed) = "placeholder"
    /\ (~loading /\ ~signed) => PrivateRoute(loading, signed) = "navigate"

C29_Witness ==
    /\ loadPc = "done"
    /\ ~loading
    /\ signed
    /\ store.user = Stringify(user)
    /\ PrivateRoute(loading, signed) = "children"
    /\ \E r \in ApiSlots : req[r].pc = "sent" /\ req[r].hdr = Bearer(store.access_token)

====
